---- MODULE Spec2Model ----
(***************************************************************************)
(* Model of backend/cli_query.py: the interactive query loop, the cached   *)
(* natural-language resolution (query_with_cache), the store access        *)
(* (execute_sql) and the two cache backends (Redis and mock_cache).        *)
(*                                                                         *)
(* Python strings are sequences of one-character strings, so that strip(), *)
(* lower() and the cache-key concatenation are computed, not assumed.      *)
(* Python's None is the one-element sequence <<"None">>, which no string   *)
(* of one-character elements can equal.                                    *)
(***************************************************************************)
EXTENDS Integers, Sequences, FiniteSets, TLC

VARIABLES pc, redis, mock_cache, main_redis, call, prevcall, exec, out, shown, printed

vars == <<pc, redis, mock_cache, main_redis, call, prevcall, exec, out, shown, printed>>

----------------------------------------------------------------------------
(* Values *)

None == <<"None">>

\* a raised exception, as the outcome of a collaborator call
Raise == <<"Exception">>

\* the object redis.Redis(...) returns
RedisClient == <<"Redis">>

\* Python truthiness of a str-or-None value: None and "" are falsy
Truthy(v) == v # None /\ v # <<>>

\* TTL of an entry written by query_with_cache
TTL == 3600

\* user queries after strip(): the second differs from the first only in case,
\* the third only in inner whitespace
Prompt1 == <<"q", "1">>
Prompt2 == <<"Q", "1">>
Prompt3 == <<"q", " ", "1">>
Prompts == {Prompt1, Prompt2, Prompt3}

Sql1 == <<"s", "1">>
Sql2 == <<"s", "2">>
Sql3 == <<"s", "3">>

\* the statement the generator writes for a prompt
SqlOf(prompt) ==
    IF prompt = Prompt1 THEN Sql1 ELSE IF prompt = Prompt2 THEN Sql2 ELSE Sql3

\* what get_sql_from_llm(prompt) can do: return the statement, return an
\* empty string, or raise
GenOutcomes(prompt) == {SqlOf(prompt), <<>>, Raise}

\* A column value as the driver returns it: a str, an int or None (SQL NULL).
StrCell(s) == [kind |-> "str", str |-> s, int |-> 0]
IntCell(n) == [kind |-> "int", str |-> <<>>, int |-> n]
NullCell == [kind |-> "none", str |-> <<>>, int |-> 0]

ColId == <<"i", "d">>
ColName == <<"n", "a", "m", "e">>

\* rows as cursor(dictionary=True) returns them: ordered (column, value) pairs
Row1 == << <<ColId, IntCell(1)>>, <<ColName, StrCell(<<"A", "l", "p", "h", "a">>)>> >>
Row2 == << <<ColId, IntCell(2)>>, <<ColName, StrCell(<<"B">>)>> >>
RowSets == {<<>>, <<Row1, Row2>>}

\* what cursor.execute/fetchall can do: return rows or raise
StoreOutcomes == RowSets \cup {Raise}

----------------------------------------------------------------------------
(* str.strip() and str.lower() *)

Whitespace == {" ", "\t", "\n"}

RECURSIVE LStrip(_)
LStrip(s) == IF s # <<>> /\ Head(s) \in Whitespace THEN LStrip(Tail(s)) ELSE s

RECURSIVE RStrip(_)
RStrip(s) ==
    IF s # <<>> /\ s[Len(s)] \in Whitespace THEN RStrip(SubSeq(s, 1, Len(s) - 1)) ELSE s

Strip(s) == RStrip(LStrip(s))

UpperCase == <<"A", "B", "C", "D", "E", "F", "G", "H", "I", "J", "K", "L", "M",
               "N", "O", "P", "Q", "R", "S", "T", "U", "V", "W", "X", "Y", "Z">>
LowerCase == <<"a", "b", "c", "d", "e", "f", "g", "h", "i", "j", "k", "l", "m",
               "n", "o", "p", "q", "r", "s", "t", "u", "v", "w", "x", "y", "z">>

LowerChar(c) ==
    IF \E i \in 1..Len(UpperCase) : UpperCase[i] = c
    THEN LowerCase[CHOOSE i \in 1..Len(UpperCase) : UpperCase[i] = c]
    ELSE c

Lower(s) == [i \in 1..Len(s) |-> LowerChar(s[i])]

----------------------------------------------------------------------------
(* The cache backends *)

\* variant: the key is built from the prompt in lower case
CacheKey_LowerCase(prompt) == <<"c", "a", "c", "h", "e", ":">> \o Lower(prompt)

\* cache_key = f"cache:{prompt}"
CacheKey(prompt) == <<"c", "a", "c", "h", "e", ":">> \o prompt

RedisKeys == {CacheKey(p) : p \in Prompts}

\* a key Redis does not hold
Absent == [val |-> None, ttl |-> 0]

\* redis_client.get(cache_key) with decode_responses=True: the string or None
RedisGet(cache_key) == redis[cache_key].val

\* redis_client.setex(cache_key, 3600, sql)
RedisSetex(cache_key, ttl, value) ==
    [redis EXCEPT ![cache_key] = [val |-> value, ttl |-> ttl]]

\* redis-py refuses to encode None (DataError); a network error raises too
SetexRaises(value, net_error) == net_error \/ value = None

\* mock_cache[prompt] = sql
MockSet(prompt, value) ==
    [q \in (DOMAIN mock_cache) \cup {prompt} |->
        IF q = prompt THEN value ELSE mock_cache[q]]

\* variant: the client is returned without the ping
get_redis_client_NoPing(ping_ok) == RedisClient

\* get_redis_client(): the client when ping() succeeds, None when it raises
get_redis_client(ping_ok) == IF ping_ok THEN RedisClient ELSE None

----------------------------------------------------------------------------
(* execute_sql *)

ExecNone == [isNone |-> TRUE, rows |-> <<>>]

\* conn_ok: mysql.connector.connect succeeds; store: what execute/fetchall do.
\* opened/closed say whether this call opened a connection and closed it.
execute_sql(sql, conn_ok, store) ==
    IF ~conn_ok
    THEN [sql |-> sql, opened |-> FALSE, closed |-> FALSE, ret |-> ExecNone]
    ELSE IF store = Raise
    THEN [sql |-> sql, opened |-> TRUE, closed |-> FALSE, ret |-> ExecNone]
    ELSE [sql |-> sql, opened |-> TRUE, closed |-> TRUE,
          ret |-> [isNone |-> FALSE, rows |-> store]]

NoExec == [sql |-> None, opened |-> FALSE, closed |-> FALSE, ret |-> ExecNone]

----------------------------------------------------------------------------
(* query_with_cache *)

\* variant: a Redis GET that returns counts as a hit, whatever it returned
CheckCache_AlwaysHit(redis_client, cache_key, prompt, get_raises) ==
    IF redis_client # None
    THEN IF get_raises
         THEN [sql |-> None, cache_hit |-> FALSE, read |-> "redis_error"]
         ELSE [sql |-> RedisGet(cache_key), cache_hit |-> TRUE, read |-> "redis"]
    ELSE IF prompt \in DOMAIN mock_cache
         THEN [sql |-> mock_cache[prompt], cache_hit |-> TRUE, read |-> "mock"]
         ELSE [sql |-> None, cache_hit |-> FALSE, read |-> "mock"]

\* variant: a failed Redis GET falls back to the in-memory mapping
CheckCache_FallbackOnError(redis_client, cache_key, prompt, get_raises) ==
    IF redis_client # None /\ ~get_raises
    THEN [sql |-> RedisGet(cache_key),
          cache_hit |-> Truthy(RedisGet(cache_key)),
          read |-> "redis"]
    ELSE IF prompt \in DOMAIN mock_cache
         THEN [sql |-> mock_cache[prompt], cache_hit |-> TRUE,
               read |-> IF redis_client # None THEN "redis_error" ELSE "mock"]
         ELSE [sql |-> None, cache_hit |-> FALSE,
               read |-> IF redis_client # None THEN "redis_error" ELSE "mock"]

\* step 1: the lookup. get_raises: redis_client.get raises.
CheckCache(redis_client, cache_key, prompt, get_raises) ==
    IF redis_client # None
    THEN IF get_raises
         THEN [sql |-> None, cache_hit |-> FALSE, read |-> "redis_error"]
         ELSE [sql |-> RedisGet(cache_key),
               cache_hit |-> Truthy(RedisGet(cache_key)),
               read |-> "redis"]
    ELSE IF prompt \in DOMAIN mock_cache
         THEN [sql |-> mock_cache[prompt], cache_hit |-> TRUE, read |-> "mock"]
         ELSE [sql |-> None, cache_hit |-> FALSE, read |-> "mock"]

\* "if not sql": the generator is called
NeedsGeneration(sql) == ~Truthy(sql)

\* variant: a generator call that raised is made a second time
GenerateSql_RetryOnce(prompt, sql, gen) ==
    IF ~Truthy(sql)
    THEN [calls |-> IF gen = Raise THEN 2 ELSE 1, arg |-> prompt, raised |-> gen = Raise,
          value |-> IF gen = Raise THEN None ELSE gen,
          sql |-> IF gen = Raise THEN None ELSE gen]
    ELSE [calls |-> 0, arg |-> None, raised |-> FALSE, value |-> None, sql |-> sql]

\* step 2: the generator call. gen: what get_sql_from_llm(prompt) does when
\* called; arg: the argument it was called with; value: what it returned.
GenerateSql(prompt, sql, gen) ==
    IF NeedsGeneration(sql)
    THEN [calls |-> 1, arg |-> prompt, raised |-> gen = Raise,
          value |-> IF gen = Raise THEN None ELSE gen,
          sql |-> IF gen = Raise THEN None ELSE gen]
    ELSE [calls |-> 0, arg |-> None, raised |-> FALSE, value |-> None, sql |-> sql]

\* variant: the in-memory mapping is written along with Redis
StoreCache_WriteThrough(redis_client, cache_key, prompt, sql, setex_error) ==
    IF redis_client # None
    THEN IF SetexRaises(sql, setex_error)
         THEN [write |-> "redis_error", redis |-> redis, mock_cache |-> mock_cache]
         ELSE [write |-> "redis", redis |-> RedisSetex(cache_key, TTL, sql),
               mock_cache |-> MockSet(prompt, sql)]
    ELSE [write |-> "mock", redis |-> redis, mock_cache |-> MockSet(prompt, sql)]

\* the cache write after a generation. setex_error: a network error in setex.
StoreCache(redis_client, cache_key, prompt, sql, setex_error) ==
    IF redis_client # None
    THEN IF SetexRaises(sql, setex_error)
         THEN [write |-> "redis_error", redis |-> redis, mock_cache |-> mock_cache]
         ELSE [write |-> "redis", redis |-> RedisSetex(cache_key, TTL, sql),
               mock_cache |-> mock_cache]
    ELSE [write |-> "mock", redis |-> redis, mock_cache |-> MockSet(prompt, sql)]

NoStore == [write |-> "none", redis |-> redis, mock_cache |-> mock_cache]

\* variant: the cache is written after every generator call, failed or not
ShouldStore_AfterAnyCall(gen) == gen.calls = 1

\* the cache write is reached after a generator call that did not raise
ShouldStore(gen) == gen.calls = 1 /\ ~gen.raised

\* variant: one try block around generation and cache write, so that a failed
\* write returns None too
Aborted_OnStoreFailure(gen, st) == gen.raised \/ st.write = "redis_error"

\* "return None" before the query is executed: only the generator's exception
\* does it; gen and st are what steps 2 and the cache write did
Aborted(gen, st) == gen.raised

\* the value query_with_cache returns: None or the result dict
ResultNone == [isNone |-> TRUE, sql |-> None, data |-> <<>>, cache_hit |-> FALSE, count |-> 0]

\* variant: "if not results: return None"
MakeResult_FalsyIsNone(sql, results, cache_hit) ==
    IF results.isNone \/ results.rows = <<>>
    THEN ResultNone
    ELSE [isNone |-> FALSE, sql |-> sql, data |-> results.rows,
          cache_hit |-> cache_hit, count |-> Len(results.rows)]

\* variant: the count leaves one row out
MakeResult_CountOffByOne(sql, results, cache_hit) ==
    IF results.isNone
    THEN ResultNone
    ELSE [isNone |-> FALSE, sql |-> sql, data |-> results.rows,
          cache_hit |-> cache_hit,
          count |-> IF results.rows = <<>> THEN 0 ELSE Len(results.rows) - 1]

\* step 3 after execute_sql returned results: "if results is None: return None"
MakeResult(sql, results, cache_hit) ==
    IF results.isNone
    THEN ResultNone
    ELSE [isNone |-> FALSE, sql |-> sql, data |-> results.rows,
          cache_hit |-> cache_hit, count |-> Len(results.rows)]

\* variant: the statement is executed first and cached afterwards
Steps_ExecuteBeforeWrite(look, gen, st, aborted) ==
    <<"lookup">> \o [i \in 1..gen.calls |-> "generate"]
    \o (IF ~aborted THEN <<"execute">> ELSE <<>>)
    \o (IF st.write # "none" THEN <<"write">> ELSE <<>>)

\* The steps of one call in the order the code takes them: the lookup of step
\* 1, every generator call, the cache write when one was attempted, and
\* execute_sql unless the call returned before it.
Steps(look, gen, st, aborted) ==
    <<"lookup">> \o [i \in 1..gen.calls |-> "generate"]
    \o (IF st.write # "none" THEN <<"write">> ELSE <<>>)
    \o (IF ~aborted THEN <<"execute">> ELSE <<>>)

\* What the environment does during one call: whether Redis answers the ping,
\* whether GET and SETEX fail, what the generator does, whether the store
\* accepts the connection and what the statement does. A choice the call can
\* never observe (GET when the ping failed, the statement when the connection
\* failed) is fixed, so that each behaviour of the environment is drawn once.
Envs(prompt) ==
    {e \in [ping_ok : BOOLEAN, get_raises : BOOLEAN, gen : GenOutcomes(prompt),
            setex_error : BOOLEAN, conn_ok : BOOLEAN, store : StoreOutcomes] :
        /\ ~e.ping_ok => ~e.get_raises /\ ~e.setex_error
        /\ e.gen = Raise => ~e.setex_error
        /\ ~e.conn_ok => e.store = Raise}

\* the environments in which the store answers every statement with two rows
EnvsSeq(prompt) == {e \in Envs(prompt) : e.conn_ok /\ e.store = <<Row1, Row2>>}

\* the environments in which, besides, a reachable Redis answers GET and SETEX
EnvsKeys(prompt) == {e \in EnvsSeq(prompt) : ~e.get_raises /\ ~e.setex_error}

\* the environments in which a reachable Redis answers GET and SETEX, the
\* store accepts the connection and the statement returns two rows or fails
EnvsExec(prompt) ==
    {e \in Envs(prompt) :
        ~e.get_raises /\ ~e.setex_error /\ e.conn_ok /\ e.store # <<>>}

\* the environments of a world: any, or one of the restricted ones
EnvsOf(world, prompt) ==
    CASE world = "any" -> Envs(prompt)
      [] world = "store_answers" -> EnvsSeq(prompt)
      [] world = "caches_answer" -> EnvsKeys(prompt)
      [] world = "store_fails" -> EnvsExec(prompt)

\* The whole of query_with_cache(prompt) under environment e: what it returns
\* (ret), what it leaves in the two caches, and what it did on the way.
query_with_cache(prompt, e) ==
    LET redis_client == get_redis_client(e.ping_ok)
        cache_key == CacheKey(prompt)
        look == CheckCache(redis_client, cache_key, prompt, e.get_raises)
        gen == GenerateSql(prompt, look.sql, e.gen)
        st == IF ShouldStore(gen)
              THEN StoreCache(redis_client, cache_key, prompt, gen.sql, e.setex_error)
              ELSE NoStore
        aborted == Aborted(gen, st)
        ex == IF aborted THEN NoExec ELSE execute_sql(gen.sql, e.conn_ok, e.store)
    IN  [prompt |-> prompt,
         ping_ok |-> e.ping_ok,
         backend |-> IF redis_client # None THEN "redis" ELSE "mock",
         read |-> look.read,
         gen_calls |-> gen.calls,
         gen_arg |-> gen.arg,
         gen_raised |-> gen.raised,
         generated |-> gen.value,
         sql |-> gen.sql,
         cache_hit |-> look.cache_hit,
         write |-> st.write,
         executed |-> ~aborted,
         steps |-> Steps(look, gen, st, aborted),
         exec |-> ex,
         ret |-> IF aborted THEN ResultNone ELSE MakeResult(gen.sql, ex.ret, look.cache_hit),
         redis |-> st.redis,
         mock_cache |-> st.mock_cache]

----------------------------------------------------------------------------
(* print_results and the handlers of the control directives *)

\* which of its messages print_results prints
print_results(results) ==
    IF results.isNone THEN "no_data"
    ELSE IF results.data = <<>> THEN "empty_result"
    ELSE "table"

----------------------------------------------------------------------------
(* print_results: the lines it prints *)

Digits == <<"0", "1", "2", "3", "4", "5", "6", "7", "8", "9">>

\* str(n) of a non-negative int
RECURSIVE NatStr(_)
NatStr(n) ==
    IF n < 10 THEN <<Digits[n + 1]>> ELSE NatStr(n \div 10) \o <<Digits[(n % 10) + 1]>>

\* str(n) of an int
IntStr(n) == IF n < 0 THEN <<"-">> \o NatStr(0 - n) ELSE NatStr(n)

\* str(value) of a column value
PyStr(v) ==
    IF v.kind = "str" THEN v.str
    ELSE IF v.kind = "int" THEN IntStr(v.int)
    ELSE <<"N", "o", "n", "e">>

\* list(row.keys())
Keys(row) == [i \in 1..Len(row) |-> row[i][1]]

\* row.get(col, default)
RowGet(row, col, default) ==
    IF \E i \in 1..Len(row) : row[i][1] = col
    THEN row[CHOOSE i \in 1..Len(row) : row[i][1] = col][2]
    ELSE default

\* max(...) of a non-empty collection of ints
MaxOf(S) == CHOOSE m \in S : \A n \in S : n <= m

\* c * n
Repeat(c, n) == [i \in 1..n |-> c]

\* variant: the width is taken from the header alone
ColWidth_HeaderOnly(data, col) == Len(col) + 2

\* col_widths[col] = max(header_len, max_data_len) + 2
ColWidth(data, col) ==
    LET header_len == Len(col)
        max_data_len ==
            MaxOf({Len(PyStr(RowGet(data[r], col, StrCell(<<>>)))) : r \in 1..Len(data)})
    IN  MaxOf({header_len, max_data_len}) + 2

\* f"{s:^{w}}": centred, the odd blank goes to the right; never shortens
Center(s, w) ==
    IF Len(s) >= w THEN s
    ELSE Repeat(" ", (w - Len(s)) \div 2) \o s
         \o Repeat(" ", (w - Len(s)) - ((w - Len(s)) \div 2))

\* f"{s:<{w}}": padded on the right; never shortens
LJust(s, w) == IF Len(s) >= w THEN s ELSE s \o Repeat(" ", w - Len(s))

\* s[:w] for w >= 0
Truncate(s, w) == IF Len(s) <= w THEN s ELSE SubSeq(s, 1, w)

\* the concatenation of a sequence of strings
RECURSIVE Concat(_)
Concat(ss) == IF ss = <<>> THEN <<>> ELSE Head(ss) \o Concat(Tail(ss))

RECURSIVE SumSeq(_)
SumSeq(ns) == IF ns = <<>> THEN 0 ELSE Head(ns) + SumSeq(Tail(ns))

\* total_width = sum(col_widths.values()) + len(columns) + 1
TotalWidth(data, columns) ==
    SumSeq([c \in 1..Len(columns) |-> ColWidth(data, columns[c])]) + Len(columns) + 1

\* header = "|" and, per column, f" {str(col):^{col_widths[col]-2}} |"
HeaderLine(data, columns) ==
    <<"|">> \o Concat([c \in 1..Len(columns) |->
        <<" ">> \o Center(columns[c], ColWidth(data, columns[c]) - 2) \o <<" ", "|">>])

\* the value of a row in a column after str() and the slice [:col_widths[col]-2]
CellText(data, row, col) ==
    Truncate(PyStr(RowGet(row, col, StrCell(<<>>))), ColWidth(data, col) - 2)

\* line = "|" and, per column, f" {val:<{col_widths[col]-2}} |"
DataLine(data, columns, row) ==
    <<"|">> \o Concat([c \in 1..Len(columns) |->
        <<" ">> \o LJust(CellText(data, row, columns[c]), ColWidth(data, columns[c]) - 2)
        \o <<" ", "|">>])

\* the literal texts; a character outside ASCII is written as its code point
MsgNoData ==
    <<"u26A0", "uFE0F", " ", " ", "u67E5", "u8BE2", "u5931", "u8D25", "uFF0C",
      "u65E0", "u6570", "u636E", "u8FD4", "u56DE">>
MsgEmpty == <<"u1F4ED", " ", " ", "u67E5", "u8BE2", "u7ED3", "u679C", "u4E3A", "u7A7A">>
FromCache == <<"(", "u6765", "u81EA", "u7F13", "u5B58", ")">>

\* variant: the indicator is printed whatever cache_hit is
SummaryLine_AlwaysFromCache(count, cache_hit) ==
    <<"u1F4CA", " ", " ", "u5171", " ">> \o IntStr(count)
    \o <<" ", "u6761", "u8BB0", "u5F55", " ">> \o FromCache

\* the f-string of line 175
SummaryLine(count, cache_hit) ==
    <<"u1F4CA", " ", " ", "u5171", " ">> \o IntStr(count)
    \o <<" ", "u6761", "u8BB0", "u5F55", " ">>
    \o (IF cache_hit THEN FromCache ELSE <<>>)

\* What print_results(results) prints: one record per print() call, with the
\* part of the output the line belongs to and its text.
PrintedLines(results) ==
    IF results.isNone THEN <<[part |-> "no_data", text |-> MsgNoData]>>
    ELSE IF results.data = <<>> THEN <<[part |-> "empty_result", text |-> MsgEmpty]>>
    ELSE LET data == results.data
             columns == Keys(data[1])
             rule == [part |-> "rule", text |-> Repeat("=", TotalWidth(data, columns))]
         IN  <<rule, [part |-> "header", text |-> HeaderLine(data, columns)], rule>>
             \o [r \in 1..Len(data) |->
                    [part |-> "data", text |-> DataLine(data, columns, data[r])]]
             \o <<rule,
                  [part |-> "summary",
                   text |-> SummaryLine(results.count, results.cache_hit)]>>

\* nothing was handed to print_results
NotShown == [called |-> FALSE, results |-> ResultNone]

----------------------------------------------------------------------------
(* main's use of print_results and the handlers of the control directives *)

\* main: "if results: print_results(results) else: print('query failed')";
\* the result dict has four keys, so only None is falsy
ShowQueryResult(results) ==
    IF ~results.isNone THEN print_results(results) ELSE "query_failed"

SqlShowTables == <<"S", "H", "O", "W", " ", "T", "A", "B", "L", "E", "S">>
SqlDescribe ==
    <<"D", "E", "S", "C", "R", "I", "B", "E", " ", "a", "i", "_", "p", "r", "o", "j", "e", "c", "t", "s">>

\* "if results:" on what execute_sql returned: None and [] are falsy
RowsTruthy(results) == ~results.isNone /\ results.rows # <<>>

\* show_tables / show_schema: one execute_sql, rows listed when there are any
show_rows(sql, conn_ok, store) ==
    LET ex == execute_sql(sql, conn_ok, store)
    IN  [exec |-> ex, rendered |-> IF RowsTruthy(ex.ret) THEN "list" ELSE "nothing"]

\* direct_sql after its input() returned line
direct_sql(line, conn_ok, store) ==
    LET sql == Strip(line)
        ex == execute_sql(sql, conn_ok, store)
    IN  IF sql = <<>>
        THEN [exec |-> NoExec, rendered |-> "nothing", shown |-> NotShown]
        ELSE [exec |-> ex,
              rendered |-> IF ~ex.ret.isNone
                           THEN print_results(MakeResult(sql, ex.ret, FALSE))
                           ELSE "nothing",
              shown |-> IF ~ex.ret.isNone
                        THEN [called |-> TRUE, results |-> MakeResult(sql, ex.ret, FALSE)]
                        ELSE NotShown]

----------------------------------------------------------------------------
(* main: the input lines and their dispatch *)

RawEmpty == <<>>
RawBlank == <<" ", "\t">>
RawQuit == <<"/", "Q", "u", "i", "t">>
RawExit == <<"e", "x", "i", "t", " ">>
RawHelp == <<"/", "H", "e", "l", "p">>
RawTables == <<"/", "t", "a", "b", "l", "e", "s", "\n">>
RawSchema == <<" ", "/", "S", "C", "H", "E", "M", "A">>
RawSql == <<"/", "s", "q", "l">>
RawQuery1 == <<" ", "q", "1", " ">>
RawQuery2 == <<"Q", "1">>
RawQuery3 == <<"q", " ", "1", "\n">>

RawInputs ==
    {RawEmpty, RawBlank, RawQuit, RawExit, RawHelp, RawTables, RawSchema, RawSql,
     RawQuery1, RawQuery2}

\* the lines typed at direct_sql's prompt
SqlInputs == {RawBlank, <<" ", "s", "1">>, Sql2}

QuitWords ==
    {<<"/", "q", "u", "i", "t">>, <<"/", "e", "x", "i", "t">>,
     <<"q", "u", "i", "t">>, <<"e", "x", "i", "t">>}

\* the branch of the loop body that input line raw takes
Dispatch(raw) ==
    LET user_input == Strip(raw)
    IN  IF user_input = <<>> THEN "empty"
        ELSE IF Lower(user_input) \in QuitWords THEN "quit"
        ELSE IF Lower(user_input) = <<"/", "h", "e", "l", "p">> THEN "help"
        ELSE IF Lower(user_input) = <<"/", "t", "a", "b", "l", "e", "s">> THEN "tables"
        ELSE IF Lower(user_input) = <<"/", "s", "c", "h", "e", "m", "a">> THEN "schema"
        ELSE IF Lower(user_input) = <<"/", "s", "q", "l">> THEN "sql"
        ELSE "query"

\* the input lines that take branch kind
Inputs(kind) == {raw \in RawInputs : Dispatch(raw) = kind}

\* variant: no "except Exception" around the loop body
AfterIteration_ErrorsEnd(kind, raised) ==
    IF kind = "quit" \/ raised # "none" THEN "done" ELSE "loop"

\* Where the loop stands after an iteration: "break" on a quit word, the
\* KeyboardInterrupt handler breaks too, "except Exception" reports and goes on.
AfterIteration(kind, raised) ==
    IF kind = "quit" THEN "done"
    ELSE IF raised = "KeyboardInterrupt" THEN "done"
    ELSE "loop"

\* what the iteration printed last when an exception reached the loop
Reported(raised, rendered) ==
    IF raised = "KeyboardInterrupt" THEN "bye"
    ELSE IF raised = "Exception" THEN "error"
    ELSE rendered

----------------------------------------------------------------------------
(* State *)

\* main's redis_client before the start-up probe
Unset == <<"unset">>

\* no query_with_cache call in the last iteration
NoCall ==
    [called |-> FALSE, prompt |-> <<>>, ping_ok |-> FALSE, backend |-> "none",
     had_entry |-> FALSE, stored |-> None, read |-> "none", gen_calls |-> 0,
     gen_arg |-> None, gen_raised |-> FALSE, generated |-> None, sql |-> None,
     cache_hit |-> FALSE, write |-> "none", redis_changed |-> FALSE,
     mock_changed |-> FALSE, executed |-> FALSE, steps |-> <<>>, ret |-> ResultNone]

\* whether the backend holds an entry for prompt, and which value
HasEntry(backend, prompt) ==
    IF backend = "redis" THEN redis[CacheKey(prompt)] # Absent
    ELSE prompt \in DOMAIN mock_cache

EntryValue(backend, prompt) ==
    IF ~HasEntry(backend, prompt) THEN None
    ELSE IF backend = "redis" THEN redis[CacheKey(prompt)].val
    ELSE mock_cache[prompt]

\* The record kept of a call r of query_with_cache made in the current state:
\* what the call did, what the backend it used held for the prompt when it
\* started, and whether it left each cache changed.
CallRecord(r) ==
    [called |-> TRUE, prompt |-> r.prompt, ping_ok |-> r.ping_ok, backend |-> r.backend,
     had_entry |-> HasEntry(r.backend, r.prompt),
     stored |-> EntryValue(r.backend, r.prompt),
     read |-> r.read, gen_calls |-> r.gen_calls, gen_arg |-> r.gen_arg,
     gen_raised |-> r.gen_raised, generated |-> r.generated,
     sql |-> r.sql, cache_hit |-> r.cache_hit, write |-> r.write,
     redis_changed |-> r.redis # redis, mock_changed |-> r.mock_cache # mock_cache,
     executed |-> r.executed,
     steps |-> r.steps \o (IF ShowQueryResult(r.ret) # "query_failed" THEN <<"format">> ELSE <<>>),
     ret |-> r.ret]

Init ==
    /\ pc = "start"
    /\ redis = [k \in RedisKeys |-> Absent]
    /\ mock_cache = <<>>
    /\ main_redis = Unset
    /\ call = NoCall
    /\ prevcall = NoCall
    /\ exec = NoExec
    /\ out = [kind |-> "none", raised |-> "none", rendered |-> "none"]
    /\ shown = NotShown
    /\ printed = <<>>

\* the lines print_results printed in an iteration that handed it res
Printed(res) == IF res.called THEN PrintedLines(res.results) ELSE <<>>

\* an iteration that calls neither query_with_cache nor touches a cache; res is
\* what it handed to print_results
PlainShown(kind, raised, rendered, ex, res) ==
    /\ out' = [kind |-> kind, raised |-> raised, rendered |-> Reported(raised, rendered)]
    /\ pc' = AfterIteration(kind, raised)
    /\ exec' = ex
    /\ call' = NoCall
    /\ prevcall' = NoCall
    /\ shown' = res
    /\ printed' = Printed(res)
    /\ UNCHANGED <<redis, mock_cache, main_redis>>

\* such an iteration without a call of print_results
Plain(kind, raised, rendered, ex) == PlainShown(kind, raised, rendered, ex, NotShown)

\* main up to the loop: the store must be reachable, Redis is probed once
Startup ==
    /\ pc = "start"
    /\ \E conn_ok \in BOOLEAN, ping_ok \in BOOLEAN :
        /\ conn_ok \/ ~ping_ok
        /\ pc' = IF conn_ok THEN "loop" ELSE "done"
        /\ main_redis' = IF conn_ok THEN get_redis_client(ping_ok) ELSE Unset
        /\ out' = [kind |-> "startup", raised |-> "none",
                   rendered |-> IF conn_ok THEN "ready" ELSE "mysql_failed"]
    /\ UNCHANGED <<redis, mock_cache, call, prevcall, exec, shown, printed>>

\* Ctrl-C at the prompt
Interrupt ==
    /\ pc = "loop"
    /\ Plain("input", "KeyboardInterrupt", "none", NoExec)

\* input() raises EOFError (standard input closed)
InputEOF ==
    /\ pc = "loop"
    /\ Plain("input", "Exception", "none", NoExec)

InputEmpty ==
    /\ pc = "loop"
    /\ \E raw \in Inputs("empty") :
        /\ Plain("empty", "none", "none", NoExec)

InputQuit ==
    /\ pc = "loop"
    /\ \E raw \in Inputs("quit") :
        /\ Plain("quit", "none", "bye", NoExec)

InputHelp ==
    /\ pc = "loop"
    /\ \E raw \in Inputs("help") :
        /\ Plain("help", "none", "help", NoExec)

InputTables ==
    /\ pc = "loop"
    /\ \E raw \in Inputs("tables"), conn_ok \in BOOLEAN, store \in StoreOutcomes :
        /\ ~conn_ok => store = Raise
        /\ LET h == show_rows(SqlShowTables, conn_ok, store)
           IN  Plain("tables", "none", h.rendered, h.exec)

InputSchema ==
    /\ pc = "loop"
    /\ \E raw \in Inputs("schema"), conn_ok \in BOOLEAN, store \in StoreOutcomes :
        /\ ~conn_ok => store = Raise
        /\ LET h == show_rows(SqlDescribe, conn_ok, store)
           IN  Plain("schema", "none", h.rendered, h.exec)

\* /sql: direct_sql reads a line (or its input() raises EOFError) and runs it
InputSql ==
    /\ pc = "loop"
    /\ \E raw \in Inputs("sql"), line \in SqlInputs \cup {Raise},
          conn_ok \in BOOLEAN, store \in StoreOutcomes :
        /\ ~conn_ok => store = Raise
        /\ IF line = Raise
           THEN Plain("sql", "Exception", "none", NoExec)
           ELSE LET h == direct_sql(line, conn_ok, store)
                IN  PlainShown("sql", "none", h.rendered, h.exec, h.shown)

\* what main hands to print_results after query_with_cache returned results
ShownQuery(results) ==
    IF ShowQueryResult(results) # "query_failed"
    THEN [called |-> TRUE, results |-> results]
    ELSE NotShown

\* Any other line is a natural-language query: raws are the lines the user may
\* type and world says what the environment may do during the call. With
\* seq, prevcall keeps the record of the call before, when that call resolved
\* the same prompt and found no entry for it.
QueryFrom(raws, world, seq) ==
    /\ pc = "loop"
    /\ \E raw \in raws :
        \E e \in EnvsOf(world, Strip(raw)) :
        \E r \in {query_with_cache(Strip(raw), e)} :
            /\ call' = CallRecord(r)
            /\ prevcall' = IF seq /\ call.called /\ call.prompt = r.prompt /\ ~call.had_entry
                           THEN call
                           ELSE NoCall
            /\ redis' = r.redis
            /\ mock_cache' = r.mock_cache
            /\ exec' = r.exec
            /\ out' = [kind |-> "query", raised |-> "none",
                       rendered |-> ShowQueryResult(r.ret)]
            /\ shown' = ShownQuery(r.ret)
            /\ printed' = Printed(ShownQuery(r.ret))
            /\ pc' = AfterIteration("query", "none")
    /\ UNCHANGED main_redis

InputQuery == QueryFrom(Inputs("query"), "any", FALSE)

InputQuerySeq == QueryFrom(Inputs("query"), "store_answers", TRUE)

----------------------------------------------------------------------------
(* print_results on its own: the result sets it may be handed *)

\* the longest row list drawn
MaxRows == 3

\* rows with values shorter and longer than the column names, a NULL, a
\* negative int, an empty string, a missing and an additional column, and
\* columns in another order
FmtRows ==
    { Row1,
      Row2,
      << <<ColId, IntCell(12345)>>, <<ColName, NullCell>> >>,
      << <<ColId, IntCell(0 - 7)>> >>,
      << <<ColName, StrCell(<<>>)>>, <<ColId, IntCell(30)>> >>,
      << <<ColId, IntCell(4)>>, <<ColName, StrCell(<<"x">>)>>,
         <<<<"z">>, StrCell(<<"l", "o", "n", "g">>)>> >> }

FmtData == UNION {[1..n -> FmtRows] : n \in 0..MaxRows}

\* the result sets the two builders make of these rows
FmtResults ==
    {MakeResult(Sql1, [isNone |-> FALSE, rows |-> data], cache_hit) :
        data \in FmtData, cache_hit \in BOOLEAN}

InitFmt ==
    /\ pc = "format"
    /\ redis = [k \in RedisKeys |-> Absent]
    /\ mock_cache = <<>>
    /\ main_redis = Unset
    /\ call = NoCall
    /\ prevcall = NoCall
    /\ exec = NoExec
    /\ out = [kind |-> "none", raised |-> "none", rendered |-> "none"]
    /\ shown \in {[called |-> FALSE, results |-> res] : res \in FmtResults}
    /\ printed = <<>>

\* print_results(results)
PrintResults ==
    /\ pc = "format"
    /\ pc' = "formatted"
    /\ shown' = [called |-> TRUE, results |-> shown.results]
    /\ printed' = PrintedLines(shown.results)
    /\ out' = [kind |-> "format", raised |-> "none",
               rendered |-> print_results(shown.results)]
    /\ UNCHANGED <<redis, mock_cache, main_redis, call, prevcall, exec>>

NextFmt == PrintResults

SpecFmt == InitFmt /\ [][NextFmt]_vars

\* time passes and the TTL of an entry runs out
Expire ==
    /\ pc = "loop"
    /\ \E k \in RedisKeys :
        /\ redis[k] # Absent
        /\ redis' = [redis EXCEPT ![k] = Absent]
    /\ UNCHANGED <<pc, mock_cache, main_redis, call, prevcall, exec, out, shown, printed>>

Next ==
    \/ Startup
    \/ Interrupt
    \/ InputEOF
    \/ InputEmpty
    \/ InputQuit
    \/ InputHelp
    \/ InputTables
    \/ InputSchema
    \/ InputSql
    \/ InputQuery
    \/ Expire

Spec == Init /\ [][Next]_vars

\* the same program with the store always answering and a user who types
\* queries, /help and quit, for the claims about two calls in a row
NextSeq ==
    \/ Startup
    \/ InputQuit
    \/ InputHelp
    \/ InputQuerySeq
    \/ Expire

SpecSeq == Init /\ [][NextSeq]_vars

InputQueryExec == QueryFrom(Inputs("query"), "store_fails", TRUE)

\* the same program with a user who types only queries, for the claims about a
\* call after a failed execution
NextExec ==
    \/ Startup
    \/ InputQueryExec
    \/ Expire

SpecExec == Init /\ [][NextExec]_vars

\* the queries that differ only in case or in inner whitespace
KeyInputs == {RawQuery1, RawQuery2, RawQuery3}

InputQueryKeys == QueryFrom(KeyInputs, "caches_answer", FALSE)

\* the same program with the store and a reachable Redis always answering and
\* a user who types only these three queries, for the claims about the cache keys
NextKeys ==
    \/ Startup
    \/ InputQueryKeys
    \/ Expire

SpecKeys == Init /\ [][NextKeys]_vars

----------------------------------------------------------------------------
(* Claims *)

\* C1: a call for a prompt that has no entry in the backend the call uses
\* invokes the generator exactly once, with the prompt, and a result it
\* returns has cache_hit = False.
C1_FreshPromptGeneratesOnce ==
    call.called /\ ~call.had_entry =>
        /\ call.gen_calls = 1
        /\ call.gen_arg = call.prompt
        /\ ~call.ret.isNone => ~call.ret.cache_hit

C1_Witness == call.called /\ ~call.had_entry /\ ~call.ret.isNone

\* C2: a call for a prompt whose entry is held (not expired) by the backend the
\* call uses, and whose lookup does not fail, invokes the generator zero times,
\* reports cache_hit = True and uses the stored SQL; and no call that reports a
\* hit invokes the generator.
C2_EntryIsHit ==
    /\ call.called /\ call.had_entry /\ call.read # "redis_error" =>
        /\ call.gen_calls = 0
        /\ call.cache_hit
        /\ call.sql = call.stored
    /\ call.called /\ call.cache_hit => call.gen_calls = 0

\* C3: a prompt with no entry is resolved twice in a row through the same
\* backend, the generator returns on the first call, the cache write and the
\* second lookup do not fail and the entry has not expired: the first call has
\* cache_hit = False, the second cache_hit = True, and both use the same SQL.
C3_TwiceIdempotent ==
    /\ prevcall.called /\ ~prevcall.gen_raised
    /\ prevcall.backend = call.backend
    /\ prevcall.write \in {"redis", "mock"}
    /\ call.had_entry /\ call.read # "redis_error"
    => /\ ~prevcall.cache_hit
       /\ call.cache_hit
       /\ call.sql = prevcall.sql

\* C4, first part: when the generator raises on a miss, the call returns None,
\* writes neither cache and executes nothing.
C4_FailedCall ==
    call.called /\ ~call.had_entry /\ call.gen_raised =>
        /\ call.ret.isNone
        /\ call.write = "none"
        /\ ~call.redis_changed /\ ~call.mock_changed
        /\ ~call.executed

C6_ReadFailureIsMiss ==
    call.called /\ call.read = "redis_error" =>
        /\ call.gen_calls = 1
        /\ call.gen_arg = call.prompt
        /\ ~call.cache_hit
        /\ ~call.gen_raised => call.executed /\ exec.sql = call.generated
        /\ ~call.ret.isNone => ~call.ret.cache_hit

C6_Witness == call.called /\ call.read = "redis_error" /\ ~call.ret.isNone

\* C7: a call whose Redis SETEX raises still executes the generated SQL and a
\* result carries that SQL with cache_hit = False.
C7_WriteFailureStillExecutes ==
    call.called /\ call.write = "redis_error" =>
        /\ call.executed
        /\ exec.sql = call.generated
        /\ ~call.ret.isNone => call.ret.sql = call.generated /\ ~call.ret.cache_hit

C7_Witness == call.called /\ call.write = "redis_error" /\ ~call.ret.isNone

\* C8: a statement that succeeds with zero rows gives a result with count = 0
\* and data = [], shown as the empty-result message; a query that reached the
\* store is shown as failed exactly when connecting or executing failed.
C8_EmptyIsNotFailure ==
    out.kind = "query" /\ call.executed =>
        /\ ~exec.ret.isNone /\ exec.ret.rows = <<>> =>
            /\ ~call.ret.isNone
            /\ call.ret.count = 0 /\ call.ret.data = <<>>
            /\ out.rendered = "empty_result"
        /\ out.rendered = "query_failed" <=> exec.ret.isNone
        /\ exec.ret.isNone <=> ~exec.opened \/ ~exec.closed

C8_Witness ==
    /\ out.kind = "query" /\ call.executed
    /\ exec.opened /\ exec.closed /\ exec.ret.rows = <<>>
    /\ out.rendered = "empty_result"

\* C9: the loop has ended only after a quit word or a KeyboardInterrupt; after
\* a failed query and after any other exception it is still running.
C9_LoopSurvivesErrors ==
    /\ pc = "done" /\ out.kind # "startup" =>
        out.kind = "quit" \/ out.raised = "KeyboardInterrupt"
    /\ out.kind = "query" /\ call.ret.isNone =>
        pc = "loop" /\ out.rendered = "query_failed"
    /\ out.raised = "Exception" => pc = "loop" /\ out.rendered = "error"

C9_Witness ==
    /\ pc = "loop" /\ out.kind = "query" /\ out.rendered = "query_failed"
    /\ call.gen_raised

\* C10: a connection that execute_sql opened is closed when it returns.
C10_ConnectionReleased == exec.opened => exec.closed

\* how often a step occurs among the steps of a call
StepCount(steps, name) == Cardinality({i \in 1..Len(steps) : steps[i] = name})

\* C11: a call reads the cache once at most, writes it once at most, invokes the
\* generator once at most and executes once at most; a step that failed is not
\* taken again: after the generator raised nothing else is done, and a failed
\* read, a failed write and a failed execution each stay the only one.
C11_NoRetries ==
    call.called =>
        /\ StepCount(call.steps, "lookup") <= 1
        /\ StepCount(call.steps, "write") <= 1
        /\ StepCount(call.steps, "generate") <= 1 /\ call.gen_calls <= 1
        /\ StepCount(call.steps, "execute") <= 1
        /\ call.gen_raised =>
            call.gen_calls = 1 /\ call.write = "none" /\ ~call.executed /\ call.ret.isNone
        /\ call.executed /\ exec.ret.isNone => call.ret.isNone

C11_Witness ==
    /\ call.called /\ call.read = "redis_error" /\ call.write = "redis_error"
    /\ call.executed /\ exec.ret.isNone
    /\ call.steps = <<"lookup", "generate", "write", "execute">>

\* C12: when the generator returns without a usable statement (an empty or
\* absent SQL value), the call fails as a failed generation does: it returns
\* None, writes neither cache and executes nothing.
C12_NoUsableSqlIsAFailure ==
    call.called /\ call.gen_calls = 1 /\ ~call.gen_raised /\ ~Truthy(call.generated) =>
        /\ call.ret.isNone
        /\ call.write = "none"
        /\ ~call.redis_changed /\ ~call.mock_changed
        /\ ~call.executed

\* C13: in every result set handed to print_results, by main after
\* query_with_cache or by direct_sql, count is the number of rows in data.
C13_CountIsLen ==
    shown.called =>
        /\ ~shown.results.isNone
        /\ shown.results.count = Len(shown.results.data)

C13_Witness ==
    /\ shown.called /\ out.kind = "sql"
    /\ Len(shown.results.data) = 2 /\ shown.results.count = 2

\* text t stands in text s at position i
Occurs(s, t, i) == i + Len(t) - 1 <= Len(s) /\ SubSeq(s, i, i + Len(t) - 1) = t

Contains(s, t) == \E i \in 1..(Len(s) + 1) : Occurs(s, t, i)

\* the texts of names stand in s one after the other, from position from on
RECURSIVE ContainsInOrder(_, _, _)
ContainsInOrder(s, names, from) ==
    \/ names = <<>>
    \/ \E i \in from..Len(s) :
        /\ Occurs(s, Head(names), i)
        /\ ContainsInOrder(s, Tail(names), i + Len(Head(names)))

\* the printed lines that belong to a part of the output
LinesOf(part) == {i \in 1..Len(printed) : printed[i].part = part}

\* C14: for a result set of n >= 1 rows print_results prints n data lines, one
\* header line that holds every column name of the first row in order, and as
\* its last line one summary line that reports the count and holds the
\* from-cache indicator exactly when cache_hit is true; for an empty row set
\* it prints the empty-result message and nothing else.
C14_TableShape ==
    pc = "formatted" =>
        LET res == shown.results
            n == Len(res.data)
        IN  /\ n >= 1 =>
                /\ Cardinality(LinesOf("data")) = n
                /\ Cardinality(LinesOf("header")) = 1
                /\ \A i \in LinesOf("header") :
                    ContainsInOrder(printed[i].text, Keys(res.data[1]), 1)
                /\ LinesOf("summary") = {Len(printed)}
                /\ Contains(printed[Len(printed)].text, IntStr(n))
                /\ Contains(printed[Len(printed)].text, FromCache) <=> res.cache_hit
                /\ LinesOf("empty_result") = {} /\ LinesOf("no_data") = {}
            /\ n = 0 => printed = <<[part |-> "empty_result", text |-> MsgEmpty]>>

C14_Witness ==
    /\ pc = "formatted" /\ Len(shown.results.data) = 3 /\ shown.results.cache_hit
    /\ Cardinality(LinesOf("data")) = 3
    /\ Len(Keys(shown.results.data[1])) = 3

\* C19: for every row and every column of the first row the slice keeps the
\* whole stringified value, the column's width less 2 being at least its
\* length, and the value stands unshortened in the row's line; every rule,
\* header and data line is as long as the sum of the column widths plus the
\* number of columns plus 1.
C19_NothingTruncated ==
    pc = "formatted" /\ shown.results.data # <<>> =>
        LET data == shown.results.data
            columns == Keys(data[1])
            total == SumSeq([c \in 1..Len(columns) |-> ColWidth(data, columns[c])])
                     + Len(columns) + 1
        IN  /\ \A r \in 1..Len(data), c \in 1..Len(columns) :
                LET val == PyStr(RowGet(data[r], columns[c], StrCell(<<>>)))
                IN  /\ ColWidth(data, columns[c]) - 2 >= Len(val)
                    /\ CellText(data, data[r], columns[c]) = val
                    /\ Contains(printed[3 + r].text, <<" ">> \o val \o <<" ">>)
            /\ \A i \in LinesOf("rule") \cup LinesOf("header") \cup LinesOf("data") :
                Len(printed[i].text) = total

\* a value longer than its column's name next to a shorter one
C19_Witness ==
    /\ pc = "formatted" /\ Len(shown.results.data) = 2
    /\ shown.results.data[1] = Row2
    /\ PyStr(RowGet(shown.results.data[2], ColId, StrCell(<<>>))) = IntStr(12345)
    /\ Len(printed[2].text) = 16

\* the place of a step in the order of the control flow
StepRank(name) ==
    CASE name = "lookup" -> 1
      [] name = "generate" -> 2
      [] name = "write" -> 3
      [] name = "execute" -> 4
      [] name = "format" -> 5

HasStep(steps, name) == \E i \in 1..Len(steps) : steps[i] = name

\* C15: the steps of one request are taken in the order lookup, generator,
\* cache write, execution, formatting. The lookup comes first; the generator
\* is invoked only when the lookup gave no usable SQL; the cache is written
\* only after the generator has returned, and with what it returned; once the
\* generator has returned, the statement is executed only after the write has
\* been attempted; only an executed statement's result is formatted.
C15_StepOrder ==
    call.called =>
        /\ call.steps # <<>> /\ call.steps[1] = "lookup"
        /\ \A i, j \in 1..Len(call.steps) :
            i < j => StepRank(call.steps[i]) < StepRank(call.steps[j])
        /\ HasStep(call.steps, "generate") <=>
            (call.read = "redis_error" \/ ~Truthy(call.stored))
        /\ HasStep(call.steps, "write") <=>
            (HasStep(call.steps, "generate") /\ ~call.gen_raised)
        /\ call.write = "mock" => mock_cache[call.prompt] = call.generated
        /\ HasStep(call.steps, "execute") <=> ~call.gen_raised
        /\ HasStep(call.steps, "execute") => exec.sql = call.sql
        /\ HasStep(call.steps, "format") <=>
            (HasStep(call.steps, "execute") /\ ~exec.ret.isNone)

C15_Witness ==
    /\ call.called
    /\ call.steps = <<"lookup", "generate", "write", "execute", "format">>
    /\ call.write = "redis"

Backends == {"redis", "mock"}

\* a step gives backend b an entry for prompt p, or another value for it
EntryWritten(b, p) ==
    /\ HasEntry(b, p)'
    /\ ~HasEntry(b, p) \/ EntryValue(b, p)' # EntryValue(b, p)

\* C16: an entry for prompt p is written, in either backend, only by a
\* resolution of exactly p, so that resolving another prompt, be it p in
\* another case or with other inner whitespace, never makes p hit; and a call
\* that hits found an entry for its own prompt, holding nothing but a statement
\* generated for that prompt.
C16_ExactPromptOnly ==
    /\ [](call.called /\ call.cache_hit =>
            /\ call.had_entry
            /\ Truthy(call.stored) => call.stored = SqlOf(call.prompt) /\ call.sql = call.stored)
    /\ [][\A b \in Backends, p \in Prompts :
            EntryWritten(b, p) => out'.kind = "query" /\ call'.called /\ call'.prompt = p]_vars

\* the first prompt misses although both its variants are cached in both backends
C16_Witness ==
    /\ call.called /\ call.prompt = Prompt1 /\ ~call.had_entry /\ ~call.cache_hit
    /\ \A b \in Backends : HasEntry(b, Prompt2) /\ HasEntry(b, Prompt3)
    /\ \A b \in Backends : Truthy(EntryValue(b, Prompt2)) /\ Truthy(EntryValue(b, Prompt3))

\* the call before wrote the cache and its statement then failed in the store
ExecFailedAfterWrite ==
    /\ prevcall.called /\ prevcall.write \in {"redis", "mock"}
    /\ prevcall.executed /\ prevcall.ret.isNone

\* C17: the entry written for a prompt stays when executing its SQL fails: in
\* the in-memory mapping it is there at the next resolution of the prompt, and
\* whenever the next resolution uses the same backend, finds the entry (no
\* expiry) and its lookup does not fail, it is a cache hit that uses the same
\* SQL and does not invoke the generator.
C17_ExecFailureKeepsEntry ==
    /\ ExecFailedAfterWrite /\ prevcall.backend = "mock" /\ call.backend = "mock" =>
        call.had_entry /\ call.stored = prevcall.sql
    /\ ExecFailedAfterWrite /\ prevcall.backend = call.backend
       /\ call.had_entry /\ call.read # "redis_error" =>
        /\ call.cache_hit
        /\ call.gen_calls = 0
        /\ call.sql = prevcall.sql

\* C18: a step changes mock_cache only if it is a query_with_cache call whose
\* Redis probe failed and whose generator was invoked and returned, and it
\* changes it at the key of that call's prompt only; so the calls with a
\* successful probe, the hits that invoke no generator, the failed generations
\* and the directives /help, /sql, /tables and /schema leave it as it is.
C18_MockCacheFrame ==
    [][mock_cache' # mock_cache =>
        /\ out'.kind = "query" /\ call'.called
        /\ ~call'.ping_ok /\ call'.gen_calls = 1 /\ ~call'.gen_raised
        /\ DOMAIN mock_cache' = (DOMAIN mock_cache) \cup {call'.prompt}
        /\ \A q \in DOMAIN mock_cache :
            q # call'.prompt => mock_cache'[q] = mock_cache[q]]_vars

\* a call has written the mapping, which holds another prompt's entry too
C18_Witness ==
    /\ call.called /\ call.mock_changed /\ ~call.ping_ok
    /\ \E q \in DOMAIN mock_cache : q # call.prompt

====
